---- MODULE Spec2Model ----
(***************************************************************************)
(* Model of the SCANOSS pre-commit hooks:                                  *)
(*   src/src/hooks/check_open_source_software.py   (the "oss" hook)        *)
(*   src/src/hooks/check_undeclared_software.py    (the "und" hook)        *)
(*   src/src/hooks/utils.py                                                *)
(*                                                                         *)
(* Spec         the two hooks as sequential runs over one working tree     *)
(* MergeSpec    merge_results applied to arbitrary file contents           *)
(* CommuteSpec  merge_results applied to two batches in both orders        *)
(* SanitizeSpec sanitize_scan_command applied to arbitrary command lists   *)
(* BomSpec      set_bom_settings applied to arbitrary commands and files   *)
(***************************************************************************)
EXTENDS Integers, Sequences, FiniteSets, TLC

\* ------------------------------------------------------------------ bounds
NumPaths == 2          \* distinct file paths that batches may name
NumRecords == 2        \* distinct per-file scan records
MaxMerges == 2         \* calls of merge_results in one behaviour of MergeSpec
MaxRuns == 2           \* hook invocations in one behaviour of Spec
MaxExitCode == 2       \* largest exit status a subprocess returns
MaxCmdLen == 3         \* tokens in a command list of SanitizeSpec
MaxPriorLen == 2       \* tokens already in a command given to set_bom_settings

Paths == 1..NumPaths
Records == 1..NumRecords

\* ------------------------------------------------------- JSON documents
\* A path-keyed results object, as json.load returns it (a dict).
EmptyMap == [p \in {} |-> 0]
ResultMaps == UNION {[D -> Records] : D \in SUBSET Paths}

\* The content of a file on disk.  kind:
\*   "absent"  the file does not exist
\*   "bad"     text that json.load rejects with JSONDecodeError
\*   "nonmap"  valid JSON that is not an object (a list, a string, null, ...)
\*   "map"     a JSON object, path -> record
\* indent is the indentation of the text (0: as the scanner wrote it,
\* 2: as json.dump(..., indent=2) writes it); two files with the same map and
\* different indent differ as bytes.
Absent == [kind |-> "absent", map |-> EmptyMap, indent |-> 0]
Bad == [kind |-> "bad", map |-> EmptyMap, indent |-> 0]
NonMap(i) == [kind |-> "nonmap", map |-> EmptyMap, indent |-> i]
MapFile(m, i) == [kind |-> "map", map |-> m, indent |-> i]

Indents == {0, 2}
Contents ==
  {Absent, Bad} \cup {NonMap(i) : i \in Indents}
    \cup {MapFile(m, i) : m \in ResultMaps, i \in Indents}

\* os.path.exists(path)
Exists(c) == c.kind # "absent"

\* json.load(f): the decoded value, or JSONDecodeError
JsonLoad(c) ==
  IF c.kind = "map" THEN [ok |-> TRUE, isdict |-> TRUE, val |-> c.map]
  ELSE IF c.kind = "nonmap" THEN [ok |-> TRUE, isdict |-> FALSE, val |-> EmptyMap]
  ELSE [ok |-> FALSE, isdict |-> FALSE, val |-> EmptyMap]

\* json.dump(value, f, indent=2)
JsonDump(isdict, val) == IF isdict THEN MapFile(val, 2) ELSE NonMap(2)

\* Faulty variant: a record already accumulated for a path is kept (setdefault).
Overlay_keep_old(combined, new) ==
  [p \in (DOMAIN combined) \cup (DOMAIN new) |->
     IF p \in DOMAIN combined THEN combined[p] ELSE new[p]]

\* Faulty variant: the new batch replaces the accumulated map instead of overlaying it.
Overlay_replace(combined, new) == new

\* for file_path, file_results in new_results.items():
\*     combined_results[file_path] = file_results
Overlay(combined, new) ==
  [p \in (DOMAIN combined) \cup (DOMAIN new) |->
     IF p \in DOMAIN new THEN new[p] ELSE combined[p]]

\* ------------------------------------------------------- merge_results
\* Faulty variant: the write of lines 122-123 also happens when the temporary file
\* does not decode (as if it sat in a finally clause).
merge_results_write_on_error(res, tmp) ==
  LET old == JsonLoad(res)
      combined == IF Exists(res) /\ old.ok
                  THEN [isdict |-> old.isdict, val |-> old.val]
                  ELSE [isdict |-> TRUE, val |-> EmptyMap]
      new == JsonLoad(tmp)
  IN  IF ~Exists(tmp) THEN [results |-> res, temp |-> tmp, raised |-> FALSE]
      ELSE IF ~new.ok
        THEN [results |-> JsonDump(combined.isdict, combined.val),
              temp |-> tmp, raised |-> FALSE]
      ELSE IF ~new.isdict THEN [results |-> res, temp |-> tmp, raised |-> TRUE]
      ELSE IF ~combined.isdict /\ DOMAIN new.val # {}
        THEN [results |-> res, temp |-> tmp, raised |-> TRUE]
      ELSE [results |-> JsonDump(combined.isdict,
                                 IF combined.isdict
                                 THEN Overlay(combined.val, new.val)
                                 ELSE combined.val),
            temp |-> Absent,
            raised |-> FALSE]

\* merge_results(): the files after the call and whether it raised.
\* res is .scanoss/results.json, tmp is .scanoss/temp_results.json.
merge_results(res, tmp) ==
  LET old == JsonLoad(res)
      \* lines 105-112: {} unless the file exists and decodes
      combined == IF Exists(res) /\ old.ok
                  THEN [isdict |-> old.isdict, val |-> old.val]
                  ELSE [isdict |-> TRUE, val |-> EmptyMap]
      new == JsonLoad(tmp)
  IN  IF ~Exists(tmp) THEN [results |-> res, temp |-> tmp, raised |-> FALSE]
      \* line 127: JSONDecodeError is logged, nothing was written
      ELSE IF ~new.ok THEN [results |-> res, temp |-> tmp, raised |-> FALSE]
      \* line 119: .items() of a non-dict raises AttributeError (not caught)
      ELSE IF ~new.isdict THEN [results |-> res, temp |-> tmp, raised |-> TRUE]
      \* line 120: item assignment into a non-dict raises TypeError (not caught)
      ELSE IF ~combined.isdict /\ DOMAIN new.val # {}
        THEN [results |-> res, temp |-> tmp, raised |-> TRUE]
      \* lines 122-126: write the combined map, unlink the temporary file
      ELSE [results |-> JsonDump(combined.isdict,
                                 IF combined.isdict
                                 THEN Overlay(combined.val, new.val)
                                 ELSE combined.val),
            temp |-> Absent,
            raised |-> FALSE]

\* ------------------------------------------------------- subprocesses
\* What subprocess.run learns of a child: its return code, or NoLaunch when
\* the executable could not be started (FileNotFoundError, not a return code).
NoLaunch == -1
ReturnCodes == 0..MaxExitCode
Outcomes == ReturnCodes \cup {NoLaunch}

\* The hook is still running (no exit status yet).
NoExit == -1
EXIT_SUCCESS == 0
EXIT_FAILURE == 1
\* An exception that nothing catches ends the interpreter with status 1.
UncaughtException == 1

\* Standard output of 'scanoss-py results ... --has-pending --format json':
\*   "not_json"                json.loads raises JSONDecodeError
\*   "pending_object"          {"total": n, "results": [ {...}, ... ]}
\*   "object_without_results"  a JSON object with no "results" key
\*   "not_an_object"           any other JSON value (list, string, null, ...)
PayloadShapes ==
  {"not_json", "pending_object", "object_without_results", "not_an_object"}

\* ---------------------------------------------------- get_staged_files
\* result.stdout.strip().split("\n") of the path names git printed: the empty
\* output splits into one empty string.
EmptyLine == 0
SplitLines(staged) == IF staged = {} THEN {EmptyLine} ELSE staged

\* Faulty variant: the empty strings are not filtered out of the split output.
get_staged_files_unfiltered(gitOk, staged) ==
  IF gitOk THEN SplitLines(staged) ELSE {}

\* get_staged_files(): the staged paths, [] when git fails (check=True raises
\* CalledProcessError, which is logged).
get_staged_files(gitOk, staged) ==
  IF gitOk THEN {f \in SplitLines(staged) : f # EmptyLine} ELSE {}

\* maybe_remove_old_results(results_path)
maybe_remove_old_results(res) == IF Exists(res) THEN Absent ELSE res

\* Faulty variant: subprocess.run without check=True, a failed scan goes unnoticed.
run_scan_unchecked(outcome) ==
  IF outcome = NoLaunch THEN UncaughtException ELSE NoExit

\* run_scan(scan_cmd) of the oss hook: the status it exits the hook with, or
\* NoExit when it returns.  CalledProcessError -> log_and_exit(..., 1); a
\* FileNotFoundError is not caught.
run_scan(outcome) ==
  IF outcome = NoLaunch THEN UncaughtException
  ELSE IF outcome # 0 THEN 1
  ELSE NoExit

\* Faulty variant: an undecodable payload is logged and the function returns.
present_results_swallow(outcome, shape) ==
  IF outcome = NoLaunch THEN [exit |-> 1, table |-> FALSE]
  ELSE IF outcome = 1
    THEN IF shape = "pending_object" THEN [exit |-> 1, table |-> TRUE]
         ELSE IF shape = "not_json" THEN [exit |-> NoExit, table |-> FALSE]
         ELSE [exit |-> 1, table |-> FALSE]
  ELSE [exit |-> NoExit, table |-> FALSE]

\* present_results() of the oss hook: the status it exits the hook with
\* (NoExit when it returns) and whether the table was printed.
present_results(outcome, shape) ==
  \* line 154: any Exception of subprocess.run -> log_and_exit(..., 1)
  IF outcome = NoLaunch THEN [exit |-> 1, table |-> FALSE]
  ELSE IF outcome = 1
    \* lines 151-153: decode, print the table, exit(1)
    THEN IF shape = "pending_object" THEN [exit |-> 1, table |-> TRUE]
         \* JSONDecodeError; or results.get("results") is None and the for
         \* loop raises TypeError; or .get of a non-dict raises
         \* AttributeError: all before the first print, all caught at line 154
         ELSE [exit |-> 1, table |-> FALSE]
  \* any other return code: nothing happens, present_results returns
  ELSE [exit |-> NoExit, table |-> FALSE]

\* Faulty variant: the scan is run with check=False.
und_run_scan_unchecked(outcome) ==
  IF outcome = NoLaunch THEN UncaughtException ELSE NoExit

\* main of the und hook, lines 276-282: run_subcommand(scanoss_scan_cmd)
\* with check=True; CalledProcessError -> ctx.exit(EXIT_FAILURE).
und_run_scan(outcome) ==
  IF outcome = NoLaunch THEN UncaughtException
  ELSE IF outcome # 0 THEN EXIT_FAILURE
  ELSE NoExit

\* Faulty variant: the tool's failure code is flattened to EXIT_FAILURE.
und_has_pending_flatten(outcome, shape) ==
  IF outcome = NoLaunch THEN [exit |-> UncaughtException, table |-> FALSE]
  ELSE IF outcome = 1
    THEN IF shape \in {"pending_object", "object_without_results"}
         THEN [exit |-> EXIT_FAILURE, table |-> TRUE]
         ELSE [exit |-> EXIT_FAILURE, table |-> FALSE]
  ELSE IF outcome # 0 THEN [exit |-> EXIT_FAILURE, table |-> FALSE]
  ELSE [exit |-> EXIT_SUCCESS, table |-> FALSE]

\* main of the und hook, lines 312-330: the exit status and whether the
\* table was printed.
und_has_pending(outcome, shape) ==
  IF outcome = NoLaunch THEN [exit |-> UncaughtException, table |-> FALSE]
  ELSE IF outcome = 1
    \* results.get("results", []): an object without results prints an
    \* empty table
    THEN IF shape \in {"pending_object", "object_without_results"}
         THEN [exit |-> EXIT_FAILURE, table |-> TRUE]
         \* line 319: JSONDecodeError -> ctx.exit(EXIT_FAILURE)
         ELSE IF shape = "not_json" THEN [exit |-> EXIT_FAILURE, table |-> FALSE]
         \* .get of a non-dict raises AttributeError, which is not caught
         ELSE [exit |-> UncaughtException, table |-> FALSE]
  \* line 322: any other non-zero code is propagated
  ELSE IF outcome # 0 THEN [exit |-> outcome, table |-> FALSE]
  ELSE [exit |-> EXIT_SUCCESS, table |-> FALSE]

\* ------------------------------------------------ sanitize_scan_command
\* A command token is a sequence of pieces: a flag name, "=", or a word.
\* "--key=abc" is <<"--key", "=", "abc">>, "--key" is <<"--key">>.
Words == {"scan", "secret1", "secret2"}
OtherFlags == {"--apiurl"}

\* Faulty variant: only the API key is treated as sensitive.
SENSITIVE_FLAGS_key_only == {"--key"}

\* line 102
SENSITIVE_FLAGS == {"--key", "--proxy"}

\* "*****" and f"{flag}=*****"
Mask == <<"*****">>
MaskedAssignment(flag) == <<flag, "=", "*****">>

Tokens ==
  {<<f>> : f \in {"--key", "--proxy"} \cup OtherFlags}
    \cup {<<f, "=", w>> : f \in {"--key", "--proxy"} \cup OtherFlags, w \in Words}
    \cup {<<w>> : w \in Words}

CommandLists == UNION {[1..n -> Tokens] : n \in 0..MaxCmdLen}

\* arg.startswith(f"{flag}=")
StartsWithAssignment(arg, flag) ==
  Len(arg) >= 2 /\ arg[1] = flag /\ arg[2] = "="

\* The orders in which `for flag in SENSITIVE_FLAGS` may visit the set.
FlagOrders ==
  {o \in [1..Cardinality(SENSITIVE_FLAGS) -> SENSITIVE_FLAGS] :
     \A i, j \in DOMAIN o : i # j => o[i] # o[j]}

\* lines 108-112, for the argument at (1-based) position i and one flag
RedactFor(i, arg, flag, sanitized) ==
  IF arg = <<flag>>
    THEN IF i + 1 <= Len(sanitized)
           THEN [sanitized EXCEPT ![i + 1] = Mask]
           ELSE sanitized
  ELSE IF StartsWithAssignment(arg, flag)
    THEN [sanitized EXCEPT ![i] = MaskedAssignment(flag)]
  ELSE sanitized

\* lines 107-112: the inner loop over the flags, in the order given
RECURSIVE RedactAll(_, _, _, _, _)
RedactAll(k, i, arg, order, sanitized) ==
  IF k > Len(order) THEN sanitized
  ELSE RedactAll(k + 1, i, arg, order, RedactFor(i, arg, order[k], sanitized))

\* lines 106-113: the loop over enumerate(command).  aliased: sanitized is
\* the same list object as command, so a write to one shows in the other.
RECURSIVE SanitizeLoop(_, _, _, _, _)
SanitizeLoop(i, cmd, sanitized, order, aliased) ==
  IF i > Len(cmd) THEN [command |-> cmd, sanitized |-> sanitized]
  ELSE LET s2 == RedactAll(1, i, cmd[i], order, sanitized)
       IN  SanitizeLoop(i + 1, IF aliased THEN s2 ELSE cmd, s2, order, aliased)

\* Faulty variant: sanitized = command, without .copy().
sanitize_scan_command_nocopy(cmd, order) ==
  SanitizeLoop(1, cmd, cmd, order, TRUE)

\* sanitize_scan_command(command): the returned list and the argument list
\* as the call leaves it.  line 104: sanitized = command.copy()
sanitize_scan_command(cmd, order) ==
  SanitizeLoop(1, cmd, cmd, order, FALSE)

\* ------------------------------------------------------ set_bom_settings
\* oss hook, lines 44-45 and 49
DEFAULT_SCANOSS_SETTINGS_FILE == "scanoss.json"
DEFAULT_SBOM_FILE == "SBOM.json"
DEFAULT_TEMP_RESULTS_PATH == ".scanoss/temp_results.json"

\* oss main, lines 63-69: scanoss_scan_cmd as set_bom_settings receives it
MainScanCommand ==
  <<"scanoss-py", "scan", "--no-wfp-output", "--output",
    DEFAULT_TEMP_RESULTS_PATH>>

\* The None argument (settings_file / sbom_file may be None).
NoneArg == "<None>"
SettingsArgs == {NoneArg, DEFAULT_SCANOSS_SETTINGS_FILE, "/etc/scanoss.json"}
SbomArgs == {NoneArg, DEFAULT_SBOM_FILE, "/etc/SBOM.json"}

\* Path(name).resolve() as a string: a relative name is made absolute
\* against the working directory, an absolute one is kept.
Resolve(name) ==
  IF name = DEFAULT_SCANOSS_SETTINGS_FILE THEN "/repo/scanoss.json"
  ELSE IF name = DEFAULT_SBOM_FILE THEN "/repo/SBOM.json"
  ELSE name

\* What is found at a path: nothing, a regular file, or a directory.
PathKinds == {"missing", "file", "dir"}

\* path is not None and path.is_file()
IsFile(arg, kind) == arg # NoneArg /\ kind = "file"

\* Tokens a command may hold before the call.
PriorTokens == {"scanoss-py", "scan", "--settings", "--identify"}
PriorCommands ==
  UNION {[1..n -> PriorTokens] : n \in 0..MaxPriorLen} \cup {MainScanCommand}

\* Faulty variant: the second test is an `if`, not an `elif`.
set_bom_settings_both(scan_cmd, settings_file, sbom_file, settingsKind, sbomKind) ==
  LET withSettings ==
        IF IsFile(settings_file, settingsKind)
        THEN scan_cmd \o <<"--settings", Resolve(settings_file)>>
        ELSE scan_cmd
  IN  IF IsFile(sbom_file, sbomKind)
      THEN withSettings \o <<"--identify", Resolve(sbom_file), "-F", "512">>
      ELSE withSettings

\* Faulty variant: the legacy SBOM file is tested first.
set_bom_settings_sbom_first(scan_cmd, settings_file, sbom_file, settingsKind, sbomKind) ==
  IF IsFile(sbom_file, sbomKind)
    THEN scan_cmd \o <<"--identify", Resolve(sbom_file), "-F", "512">>
  ELSE IF IsFile(settings_file, settingsKind)
    THEN scan_cmd \o <<"--settings", Resolve(settings_file)>>
  ELSE scan_cmd

\* set_bom_settings(scan_cmd, settings_file, sbom_file): the list scan_cmd
\* after the call (extend works in place).  settingsKind and sbomKind are
\* what the file system holds at the two resolved paths.
set_bom_settings(scan_cmd, settings_file, sbom_file, settingsKind, sbomKind) ==
  \* line 43
  IF IsFile(settings_file, settingsKind)
    THEN scan_cmd \o <<"--settings", Resolve(settings_file)>>
  \* line 45
  ELSE IF IsFile(sbom_file, sbomKind)
    THEN scan_cmd \o <<"--identify", Resolve(sbom_file), "-F", "512">>
  ELSE scan_cmd

\* ------------------------------------------------------------ variables
VARIABLES
  results,      \* content of .scanoss/results.json
  temp,         \* content of .scanoss/temp_results.json
  hook,         \* the hook of the current run: "none" | "oss" | "und"
  pc,           \* "idle" | "scan" | "merge" | "present" | "done"
  files,        \* the files to scan of the current run
  staged,       \* und: the paths git printed (what is really staged)
  gitFailed,    \* und: git diff failed in this run
  scanInvoked,  \* the scan subcommand was run in this run
  scanRc,       \* its outcome
  stored,       \* this run merged or wrote the scan output
  inspectInvoked, \* the results subcommand was run in this run
  inspectRc,    \* its outcome
  payload,      \* the shape of its standard output
  tableRendered,  \* the pending-files table was printed in this run
  exitCode,     \* exit status of the run, NoExit while it runs
  runs,         \* hook invocations so far
  expected,     \* while accumulating: overlay of the scan results of the
                \* batches of this commit attempt
  accumulating, \* every run of this commit attempt was an oss run with a
                \* non-empty batch and a successful scan
  preResults,   \* MergeSpec: results.json as the current merge_results call finds it
  preTemp,      \* MergeSpec: temp_results.json as the current call finds it
  raised,       \* MergeSpec: the last merge_results call raised
  mstate,       \* MergeSpec: "ready" | "merged"
  mcalls,       \* MergeSpec: merge_results calls so far
  altResults,   \* CommuteSpec: results.json of the second working tree
  startResults, \* CommuteSpec: results.json both working trees started with
  b1, b2,       \* CommuteSpec: the two batches (path -> record)
  cstep,        \* CommuteSpec: merges done in each working tree (0..2)
  original,     \* SanitizeSpec: scanoss_scan_cmd as main built it
  command,      \* SanitizeSpec: the scanoss_scan_cmd list as it is now
  logged,       \* SanitizeSpec: the list written to the debug log
  executed,     \* SanitizeSpec: the list handed to run_subcommand
  spc,          \* SanitizeSpec: "built" | "ran"
  scanCmd,      \* BomSpec: the scan_cmd list as it is now
  scanCmdBefore, \* BomSpec: the scan_cmd list as the call received it
  settingsFile, \* BomSpec: the settings_file argument
  sbomFile,     \* BomSpec: the sbom_file argument
  settingsKind, \* BomSpec: what is at the resolved settings path
  sbomKind,     \* BomSpec: what is at the resolved SBOM path
  bpc           \* BomSpec: "call" | "returned"

fsVars == <<results, temp>>
runVars == <<hook, pc, files, staged, gitFailed, scanInvoked, scanRc,
             stored, inspectInvoked, inspectRc, payload, tableRendered,
             exitCode>>
attemptVars == <<runs, expected, accumulating>>
hookVars == <<runVars, attemptVars>>
mergeVars == <<preResults, preTemp, raised, mstate, mcalls>>
commuteVars == <<altResults, startResults, b1, b2, cstep>>
sanVars == <<original, command, logged, executed, spc>>
bomVars == <<scanCmd, scanCmdBefore, settingsFile, sbomFile, settingsKind,
             sbomKind, bpc>>
vars == <<fsVars, hookVars, mergeVars, commuteVars, sanVars, bomVars>>
otherThanHook == <<mergeVars, commuteVars, sanVars, bomVars>>
otherThanMerge == <<hookVars, commuteVars, sanVars, bomVars>>
otherThanCommute == <<hookVars, mergeVars, sanVars, bomVars>>
otherThanSanitize == <<fsVars, hookVars, mergeVars, commuteVars, bomVars>>
otherThanBom == <<fsVars, hookVars, mergeVars, commuteVars, sanVars>>

HookIdle ==
  /\ hook = "none"
  /\ pc = "idle"
  /\ files = {}
  /\ staged = {}
  /\ gitFailed = FALSE
  /\ scanInvoked = FALSE
  /\ scanRc = NoLaunch
  /\ stored = FALSE
  /\ inspectInvoked = FALSE
  /\ inspectRc = NoLaunch
  /\ payload = "not_json"
  /\ tableRendered = FALSE
  /\ exitCode = NoExit
  /\ runs = 0
  /\ expected = EmptyMap
  /\ accumulating = FALSE

MergeIdle ==
  /\ preResults = Absent
  /\ preTemp = Absent
  /\ raised = FALSE
  /\ mstate = "ready"
  /\ mcalls = 0

CommuteIdle ==
  /\ altResults = Absent
  /\ startResults = Absent
  /\ b1 = EmptyMap
  /\ b2 = EmptyMap
  /\ cstep = 0

BomIdle ==
  /\ scanCmd = <<>>
  /\ scanCmdBefore = <<>>
  /\ settingsFile = NoneArg
  /\ sbomFile = NoneArg
  /\ settingsKind = "missing"
  /\ sbomKind = "missing"
  /\ bpc = "call"

SanitizeIdle ==
  /\ original = <<>>
  /\ command = <<>>
  /\ logged = <<>>
  /\ executed = <<>>
  /\ spc = "built"

\* ----------------------------------------------------------------- Spec
\* The working tree before the first run: no results directory content.
Init ==
  /\ results = Absent
  /\ temp = Absent
  /\ HookIdle
  /\ MergeIdle
  /\ CommuteIdle
  /\ SanitizeIdle
  /\ BomIdle

\* What a scan of the batch fs can print or write: a results object over
\* the files it reported on, text that is no JSON, or JSON of another type.
ScanDocuments(fs) ==
  {MapFile(m, 0) : m \in UNION {[D -> Records] : D \in SUBSET (fs \cap Paths)}}
    \cup {Bad, NonMap(0)}

\* oss: what the scan leaves in the temporary file; the old content when it
\* wrote nothing, which is all a scanner that did not start can do.
ScanWrites(outcome) ==
  IF outcome = NoLaunch THEN {temp} ELSE ScanDocuments(files) \cup {temp}

\* und: the captured standard output, which is used only after exit code 0.
ScanPrints(outcome) == IF outcome = 0 THEN ScanDocuments(files) ELSE {Bad}

\* The standard output of the results subcommand is decoded only when its
\* return code is 1; with any other outcome its shape is left at "not_json".
PayloadsRead(outcome) == IF outcome = 1 THEN PayloadShapes ELSE {"not_json"}

\* A run begins: the fields of the previous run are reset.
BeginRun(h, fs) ==
  /\ pc \in {"idle", "done"}
  /\ runs < MaxRuns
  /\ runs' = runs + 1
  /\ hook' = h
  /\ files' = fs
  /\ scanInvoked' = FALSE
  /\ scanRc' = NoLaunch
  /\ stored' = FALSE
  /\ inspectInvoked' = FALSE
  /\ inspectRc' = NoLaunch
  /\ payload' = "not_json"
  /\ tableRendered' = FALSE

\* oss main, lines 58-79, called with the batch `filenames`.  fresh: this run
\* is the first of a new commit attempt (nothing in the code depends on it).
OssMainStart(filenames, fresh) ==
  /\ BeginRun("oss", filenames)
  /\ fresh \/ runs > 0
  /\ staged' = {}
  /\ gitFailed' = FALSE
  \* lines 73-74: maybe_setup_results_dir, maybe_remove_old_results
  /\ results' = maybe_remove_old_results(results)
  /\ temp' = temp
  /\ accumulating' = ((fresh \/ accumulating) /\ filenames # {})
  /\ expected' = IF fresh \/ ~accumulating' THEN EmptyMap ELSE expected
  \* line 76: if not args.filenames: log_and_exit(..., 0)
  /\ IF filenames = {}
       THEN pc' = "done" /\ exitCode' = 0
       ELSE pc' = "scan" /\ exitCode' = NoExit
  /\ UNCHANGED otherThanHook

\* oss main, line 81: run_scan.  The scanner ends with `outcome` and leaves
\* `written` in the temporary file (nothing when written is the old content).
OssRunScan(outcome, written) ==
  /\ hook = "oss" /\ pc = "scan"
  /\ scanInvoked' = TRUE
  /\ scanRc' = outcome
  /\ temp' = written
  \* a successful scan of the batch: exit 0 and a record for every file
  /\ LET ok == /\ outcome = 0
               /\ written.kind = "map"
               /\ DOMAIN written.map = files
     IN  /\ accumulating' = (accumulating /\ ok)
         /\ expected' = IF accumulating /\ ok
                         THEN Overlay(expected, written.map)
                         ELSE EmptyMap
  /\ IF run_scan(outcome) # NoExit
       THEN pc' = "done" /\ exitCode' = run_scan(outcome)
       ELSE pc' = "merge" /\ exitCode' = NoExit
  /\ UNCHANGED <<results, hook, files, staged, gitFailed, stored,
                 inspectInvoked, inspectRc, payload, tableRendered, runs>>
  /\ UNCHANGED otherThanHook

\* oss main, line 84: merge_results.
OssMergeResults ==
  /\ hook = "oss" /\ pc = "merge"
  /\ LET r == merge_results(results, temp)
     IN  /\ results' = r.results
         /\ temp' = r.temp
         /\ IF r.raised
              THEN pc' = "done" /\ exitCode' = UncaughtException
              ELSE pc' = "present" /\ exitCode' = NoExit
  /\ stored' = TRUE
  /\ UNCHANGED <<hook, files, staged, gitFailed, scanInvoked, scanRc,
                 inspectInvoked, inspectRc, payload, tableRendered>>
  /\ UNCHANGED <<attemptVars, otherThanHook>>

\* oss main, lines 86-88: present_results, then exit(0).
OssPresentResults(outcome, shape) ==
  /\ hook = "oss" /\ pc = "present"
  /\ inspectInvoked' = TRUE
  /\ inspectRc' = outcome
  /\ payload' = shape
  /\ LET r == present_results(outcome, shape)
     IN  /\ tableRendered' = r.table
         /\ exitCode' = IF r.exit # NoExit THEN r.exit ELSE 0
  /\ pc' = "done"
  /\ UNCHANGED <<results, temp, hook, files, staged, gitFailed,
                 scanInvoked, scanRc, stored>>
  /\ UNCHANGED <<attemptVars, otherThanHook>>

\* und main, lines 229-272: get_staged_files, the early exit, the command.
UndMainStart(gitOk, gitStaged) ==
  /\ BeginRun("und", get_staged_files(gitOk, gitStaged))
  /\ staged' = gitStaged
  /\ gitFailed' = ~gitOk
  /\ expected' = EmptyMap
  /\ accumulating' = FALSE
  /\ IF get_staged_files(gitOk, gitStaged) = {}
       THEN pc' = "done" /\ exitCode' = EXIT_SUCCESS
       ELSE pc' = "scan" /\ exitCode' = NoExit
  /\ UNCHANGED <<fsVars, otherThanHook>>

\* und main, lines 276-299: the scan with its standard output captured, then
\* the output directory is created and the output written.  osOk: neither
\* mkdir nor open/write raised OSError.  defaultOut: --output is
\* .scanoss/results.json.
UndRunScan(outcome, printed, osOk, defaultOut) ==
  /\ hook = "und" /\ pc = "scan"
  /\ scanInvoked' = TRUE
  /\ scanRc' = outcome
  /\ IF und_run_scan(outcome) # NoExit
       THEN /\ pc' = "done" /\ exitCode' = und_run_scan(outcome)
            /\ stored' = FALSE
            /\ results' = results
       ELSE IF ~osOk
       THEN /\ pc' = "done" /\ exitCode' = EXIT_FAILURE
            /\ stored' = FALSE
            /\ results' = results
       ELSE /\ pc' = "present" /\ exitCode' = NoExit
            /\ stored' = TRUE
            /\ results' = IF defaultOut THEN printed ELSE results
  /\ UNCHANGED <<temp, hook, files, staged, gitFailed,
                 inspectInvoked, inspectRc, payload, tableRendered>>
  /\ UNCHANGED <<attemptVars, otherThanHook>>

\* und main, lines 301-330: the results subcommand and the verdict.
UndHasPending(outcome, shape) ==
  /\ hook = "und" /\ pc = "present"
  /\ inspectInvoked' = TRUE
  /\ inspectRc' = outcome
  /\ payload' = shape
  /\ LET r == und_has_pending(outcome, shape)
     IN  /\ tableRendered' = r.table
         /\ exitCode' = r.exit
  /\ pc' = "done"
  /\ UNCHANGED <<fsVars, hook, files, staged, gitFailed, scanInvoked,
                 scanRc, stored>>
  /\ UNCHANGED <<attemptVars, otherThanHook>>

Next ==
  \/ \E fs \in SUBSET Paths, fresh \in BOOLEAN : OssMainStart(fs, fresh)
  \/ \E o \in Outcomes : \E w \in ScanWrites(o) : OssRunScan(o, w)
  \/ OssMergeResults
  \/ \E o \in Outcomes : \E sh \in PayloadsRead(o) : OssPresentResults(o, sh)
  \/ \E ok \in BOOLEAN, st \in SUBSET Paths : UndMainStart(ok, st)
  \/ \E o \in Outcomes : \E w \in ScanPrints(o), ok \in BOOLEAN, d \in BOOLEAN :
       UndRunScan(o, w, ok, d)
  \/ \E o \in Outcomes : \E sh \in PayloadsRead(o) : UndHasPending(o, sh)

Spec == Init /\ [][Next]_vars

\* C1: after any sequence of oss runs of one commit attempt, each with a
\* non-empty batch and a successful scan, results.json holds the path-keyed
\* overlay of the scan results of all the batches.
C1_BatchesAccumulate ==
  (hook = "oss" /\ pc = "done" /\ accumulating)
    => (results.kind = "map" /\ results.map = expected)

\* C2: a run ends with exit status 0 only if there was nothing to scan or the
\* results subcommand returned 0.
C2_ExitZeroOnlyIfEmptyOrClean ==
  (pc = "done" /\ exitCode = 0)
    => (files = {} \/ (inspectInvoked /\ inspectRc = 0))

\* C3: when the results subcommand returns a code N other than 0 and 1, the
\* run ends with exit status N and prints no table.
C3_ToolErrorCodePropagated ==
  (pc = "done" /\ inspectInvoked /\ inspectRc \notin {0, 1, NoLaunch})
    => (exitCode = inspectRc /\ ~tableRendered)

\* The run has nothing to scan: an empty batch (oss), or git failed or
\* reported no staged path (und).
NothingToScan ==
  \/ hook = "oss" /\ files = {}
  \/ hook = "und" /\ (gitFailed \/ staged = {})

\* C4: a run with nothing to scan (a failed git diff included) has an empty
\* file list, exits 0 and runs neither the scan nor the results subcommand.
C4_NothingToScanExitsZero ==
  (hook # "none" /\ NothingToScan)
    => /\ files = {}
       /\ pc = "done"
       /\ exitCode = 0
       /\ ~scanInvoked
       /\ ~inspectInvoked

\* An und run in which git diff failed has exited 0.
C4_Witness ==
  /\ hook = "und"
  /\ gitFailed
  /\ staged # {}
  /\ pc = "done"
  /\ exitCode = 0
  /\ ~scanInvoked

\* An oss run with an empty batch has exited 0.
C4_WitnessOss ==
  /\ hook = "oss"
  /\ files = {}
  /\ pc = "done"
  /\ exitCode = 0
  /\ ~scanInvoked

\* C5: once the scan subprocess has exited with a non-zero code the run is
\* over with exit status 1: nothing was merged or written (the oss hook's
\* results.json is still absent) and the results subcommand was not run.
C5_ScanFailureIsFatal ==
  (scanInvoked /\ scanRc \notin {0, NoLaunch})
    => /\ pc = "done"
       /\ exitCode = 1
       /\ ~stored
       /\ ~inspectInvoked
       /\ (hook = "oss" => results = Absent)

\* An oss run whose scan failed after writing a temporary file has exited 1.
C5_Witness ==
  /\ hook = "oss"
  /\ scanInvoked
  /\ scanRc = MaxExitCode
  /\ temp.kind = "map"
  /\ pc = "done"
  /\ exitCode = 1

\* An und run whose scan failed has exited 1.
C5_WitnessUnd ==
  /\ hook = "und"
  /\ scanInvoked
  /\ scanRc = 1
  /\ pc = "done"
  /\ exitCode = 1

C6_WitnessUndecodable ==
  /\ hook = "und"
  /\ pc = "done"
  /\ inspectInvoked
  /\ inspectRc = 1
  /\ payload = "not_json"
  /\ ~tableRendered
  /\ exitCode = 1

\* ------------------------------------------------------------ MergeSpec
MergeInit ==
  /\ results \in Contents
  /\ temp \in Contents
  /\ preResults = results
  /\ preTemp = temp
  /\ raised = FALSE
  /\ mstate = "ready"
  /\ mcalls = 0
  /\ HookIdle
  /\ CommuteIdle
  /\ SanitizeIdle
  /\ BomIdle

\* After a call, the scanner of the next batch
\* (scanoss-py scan --output .scanoss/temp_results.json) leaves a file.
ScannerWritesTemp(c) ==
  /\ mstate = "merged"
  /\ mcalls < MaxMerges
  /\ temp' = c
  /\ preTemp' = c
  /\ preResults' = results
  /\ raised' = FALSE
  /\ mstate' = "ready"
  /\ UNCHANGED <<results, mcalls>>
  /\ UNCHANGED otherThanMerge

MergeCall ==
  /\ mstate = "ready"
  /\ mcalls < MaxMerges
  /\ LET r == merge_results(results, temp)
     IN  /\ results' = r.results
         /\ temp' = r.temp
         /\ raised' = r.raised
  /\ preResults' = results
  /\ preTemp' = temp
  /\ mstate' = "merged"
  /\ mcalls' = mcalls + 1
  /\ UNCHANGED otherThanMerge

MergeNext ==
  \/ \E c \in Contents : ScannerWritesTemp(c)
  \/ MergeCall

MergeSpec == MergeInit /\ [][MergeNext]_vars

\* C7: when merge_results finds a temporary file that is not valid JSON, the
\* persistent results file is exactly what it was before the call (same
\* content, or still absent), whatever it held, and the call does not raise.
C7_MalformedTempLeavesResults ==
  (mstate = "merged" /\ preTemp.kind = "bad")
    => (results = preResults /\ ~raised)

\* merge_results has run on an undecodable temporary file while the
\* persistent file held a non-empty map in the scanner's own formatting.
C7_Witness ==
  /\ mstate = "merged"
  /\ preTemp.kind = "bad"
  /\ preResults.kind = "map"
  /\ preResults.indent = 0
  /\ DOMAIN preResults.map # {}
  /\ results = preResults

\* merge_results has run on an undecodable temporary file while the
\* persistent file was itself undecodable.
C7_WitnessBadResults ==
  /\ mstate = "merged"
  /\ preTemp.kind = "bad"
  /\ preResults.kind = "bad"

\* The accumulated map S that merge_results starts from.
AccumulatedMap(c) == IF c.kind = "map" THEN c.map ELSE EmptyMap

\* C8: given an accumulated map S (a missing or undecodable persistent file
\* counts as empty) and a valid batch map B in the temporary file,
\* merge_results writes the map with keys(S) \cup keys(B) that takes B's record
\* on every path of B and S's record on every path only in S, and removes the
\* temporary file.
C8_MergeWritesOverlay ==
  (mstate = "merged" /\ preTemp.kind = "map"
     /\ preResults.kind \in {"absent", "bad", "map"})
    => LET S == AccumulatedMap(preResults)
           B == preTemp.map
       IN  /\ results.kind = "map"
           /\ DOMAIN results.map = (DOMAIN S) \cup (DOMAIN B)
           /\ \A p \in DOMAIN B : results.map[p] = B[p]
           /\ \A p \in (DOMAIN S) \ (DOMAIN B) : results.map[p] = S[p]
           /\ temp = Absent
           /\ ~raised

\* merge_results has run with a batch that overrides the record of a path
\* already accumulated while another accumulated path is not in the batch.
C8_Witness ==
  /\ mstate = "merged"
  /\ preTemp.kind = "map"
  /\ preResults.kind = "map"
  /\ \E p \in (DOMAIN preResults.map) \cap (DOMAIN preTemp.map) :
       preResults.map[p] # preTemp.map[p]
  /\ (DOMAIN preResults.map) \ (DOMAIN preTemp.map) # {}
  /\ results.kind = "map"
  /\ temp = Absent

\* ---------------------------------------------------------- CommuteSpec
\* Two working trees start from the same results.json.  The first scans and
\* merges batch b1 and then batch b2, the second b2 and then b1.
CommuteInit ==
  /\ results \in Contents
  /\ temp = Absent
  /\ altResults = results
  /\ startResults = results
  /\ b1 \in ResultMaps
  /\ b2 \in ResultMaps
  /\ cstep = 0
  /\ HookIdle
  /\ MergeIdle
  /\ SanitizeIdle
  /\ BomIdle

\* One batch in each tree: the scanner writes the batch to the temporary file
\* (main, line 81), then merge_results runs (main, line 84).
CommuteStep(first, second) ==
  LET a == merge_results(results, MapFile(first, 0))
      b == merge_results(altResults, MapFile(second, 0))
  IN  /\ results' = a.results
      /\ temp' = a.temp
      /\ altResults' = b.results
      /\ cstep' = cstep + 1
      /\ UNCHANGED <<startResults, b1, b2>>
      /\ UNCHANGED otherThanCommute

CommuteFirst == cstep = 0 /\ CommuteStep(b1, b2)

CommuteSecond == cstep = 1 /\ CommuteStep(b2, b1)

CommuteNext == CommuteFirst \/ CommuteSecond

CommuteSpec == CommuteInit /\ [][CommuteNext]_vars

\* C9: for every accumulated map S and batches B1, B2 over disjoint path sets,
\* merging B1 then B2 leaves the same path -> record map as B2 then B1.
C9_DisjointBatchesCommute ==
  (/\ cstep = 2
   /\ startResults.kind \in {"absent", "bad", "map"}
   /\ (DOMAIN b1) \cap (DOMAIN b2) = {})
    => /\ results.kind = "map"
       /\ altResults.kind = "map"
       /\ results.map = altResults.map

\* Both orders have been applied to a non-empty accumulated map and two
\* non-empty disjoint batches, one of which overrides an accumulated record.
C9_Witness ==
  /\ cstep = 2
  /\ startResults.kind = "map"
  /\ DOMAIN b1 # {}
  /\ DOMAIN b2 # {}
  /\ (DOMAIN b1) \cap (DOMAIN b2) = {}
  /\ \E p \in (DOMAIN startResults.map) \cap (DOMAIN b1) :
       startResults.map[p] # b1[p]
  /\ results.map = altResults.map

\* With batches that share a path the two orders can differ (the later wins).
C9_OverlappingBatchesDiffer ==
  /\ cstep = 2
  /\ (DOMAIN b1) \cap (DOMAIN b2) # {}
  /\ results.kind = "map"
  /\ altResults.kind = "map"
  /\ results.map # altResults.map

\* --------------------------------------------------------- SanitizeSpec
SanitizeInit ==
  /\ original \in CommandLists
  /\ command = original
  /\ logged = <<>>
  /\ executed = <<>>
  /\ spc = "built"
  /\ results = Absent
  /\ temp = Absent
  /\ HookIdle
  /\ MergeIdle
  /\ CommuteIdle
  /\ BomIdle

\* und main, lines 272-277: the sanitized command is logged, then
\* scanoss_scan_cmd itself is handed to run_subcommand.
LogAndRunScan(order) ==
  /\ spc = "built"
  /\ LET r == sanitize_scan_command(command, order)
     IN  /\ logged' = r.sanitized
         /\ command' = r.command
         /\ executed' = r.command
  /\ spc' = "ran"
  /\ UNCHANGED original
  /\ UNCHANGED otherThanSanitize

SanitizeNext == \E o \in FlagOrders : LogAndRunScan(o)

SanitizeSpec == SanitizeInit /\ [][SanitizeNext]_vars

\* The flags whose values are secret, and the shapes a token can have.
SecretFlags == {"--key", "--proxy"}
IsSecretFlag(tok) == \E f \in SecretFlags : tok = <<f>>
IsSecretAssignment(tok) ==
  \E f \in SecretFlags : Len(tok) >= 2 /\ tok[1] = f /\ tok[2] = "="

\* C10 as stated: the logged list has the length of the command; every token
\* right after a '--key' or '--proxy' token is exactly '*****'; every
\* '--key=<value>' or '--proxy=<value>' token is '<flag>=*****'; the command
\* list is not modified and is what is executed.
C10_MaskAfterEveryFlag ==
  spc = "ran"
    => /\ Len(logged) = Len(original)
       /\ \A i \in 1..Len(original) :
            (i > 1 /\ IsSecretFlag(original[i - 1])) => logged[i] = Mask
       /\ \A i \in 1..Len(original) :
            IsSecretAssignment(original[i])
              => logged[i] = <<original[i][1], "=", "*****">>
       /\ command = original
       /\ executed = original

\* C10 as amended: as stated, except that a token right after a '--key' or
\* '--proxy' token that itself has the form '--key=<value>' or
\* '--proxy=<value>' is logged as '<flag>=*****' instead of '*****'.  No
\* piece of a secret-bearing token other than its flag name is logged.
C10_SecretsRedacted ==
  spc = "ran"
    => /\ Len(logged) = Len(original)
       /\ \A i \in 1..Len(original) :
            (i > 1 /\ IsSecretFlag(original[i - 1])
               /\ ~IsSecretAssignment(original[i]))
              => logged[i] = Mask
       /\ \A i \in 1..Len(original) :
            IsSecretAssignment(original[i])
              => logged[i] = <<original[i][1], "=", "*****">>
       /\ \A i \in 1..Len(original) :
            ((i > 1 /\ IsSecretFlag(original[i - 1]))
               \/ IsSecretAssignment(original[i]))
              => \A k \in 1..Len(logged[i]) : logged[i][k] \notin Words
       /\ command = original
       /\ executed = original

\* A command with '--key secret1' and '--proxy=secret2' has been logged
\* redacted and executed as built.
C10_Witness ==
  /\ spc = "ran"
  /\ original = << <<"--key">>, <<"secret1">>, <<"--proxy", "=", "secret2">> >>
  /\ logged = << <<"--key">>, Mask, <<"--proxy", "=", "*****">> >>
  /\ executed = original

\* -------------------------------------------------------------- BomSpec
BomInit ==
  /\ scanCmd \in PriorCommands
  /\ scanCmdBefore = scanCmd
  /\ settingsFile \in SettingsArgs
  /\ sbomFile \in SbomArgs
  /\ settingsKind \in PathKinds
  /\ sbomKind \in PathKinds
  /\ bpc = "call"
  /\ results = Absent
  /\ temp = Absent
  /\ HookIdle
  /\ MergeIdle
  /\ CommuteIdle
  /\ SanitizeIdle

\* oss main, line 71: set_bom_settings(scanoss_scan_cmd, ...)
SetBomSettings ==
  /\ bpc = "call"
  /\ scanCmd' = set_bom_settings(scanCmd, settingsFile, sbomFile,
                                 settingsKind, sbomKind)
  /\ bpc' = "returned"
  /\ UNCHANGED <<scanCmdBefore, settingsFile, sbomFile, settingsKind, sbomKind>>
  /\ UNCHANGED otherThanBom

BomNext == SetBomSettings

BomSpec == BomInit /\ [][BomNext]_vars

\* The tokens the call added, and whether each file is there.
Appended == SubSeq(scanCmd, Len(scanCmdBefore) + 1, Len(scanCmd))
SettingsFileExists == settingsFile # NoneArg /\ settingsKind = "file"
SbomFileExists == sbomFile # NoneArg /\ sbomKind = "file"
Holds(seq, tok) == \E i \in 1..Len(seq) : seq[i] = tok

\* C11: set_bom_settings appends ['--settings', <settings path>] when the
\* settings file exists, whether or not the SBOM file does; appends
\* ['--identify', <sbom path>, '-F', '512'] only when the settings file does
\* not exist and the SBOM file does; appends nothing when neither exists;
\* never appends both '--settings' and '--identify'; and leaves the tokens
\* already in the command as they were.  The paths are the resolved ones.
C11_SettingsBeforeSbom ==
  bpc = "returned"
    => /\ Len(scanCmd) >= Len(scanCmdBefore)
       /\ SubSeq(scanCmd, 1, Len(scanCmdBefore)) = scanCmdBefore
       /\ SettingsFileExists
            => Appended = <<"--settings", Resolve(settingsFile)>>
       /\ (~SettingsFileExists /\ SbomFileExists)
            => Appended = <<"--identify", Resolve(sbomFile), "-F", "512">>
       /\ Holds(Appended, "--identify")
            => (~SettingsFileExists /\ SbomFileExists)
       /\ (~SettingsFileExists /\ ~SbomFileExists) => Appended = <<>>
       /\ ~(Holds(Appended, "--settings") /\ Holds(Appended, "--identify"))

\* main's command came back with '--settings' only, although both the
\* settings file and the SBOM file are there.
C11_Witness ==
  /\ bpc = "returned"
  /\ scanCmdBefore = MainScanCommand
  /\ settingsFile = DEFAULT_SCANOSS_SETTINGS_FILE
  /\ sbomFile = DEFAULT_SBOM_FILE
  /\ settingsKind = "file"
  /\ sbomKind = "file"
  /\ scanCmd = MainScanCommand \o <<"--settings", "/repo/scanoss.json">>

\* main's command came back with the legacy flags: no settings file, an
\* SBOM file.
C11_WitnessLegacy ==
  /\ bpc = "returned"
  /\ scanCmdBefore = MainScanCommand
  /\ settingsKind = "missing"
  /\ sbomFile = DEFAULT_SBOM_FILE
  /\ sbomKind = "file"
  /\ scanCmd = MainScanCommand \o <<"--identify", "/repo/SBOM.json", "-F", "512">>

====
